---- MODULE Spec2Model ----
(***************************************************************************)
(* Model of pandas_basics.ipynb: the four notebook functions load_data,    *)
(* explore_dataframe, data_selection and data_operations, run as notebook  *)
(* cells in any order over the module-level DataFrame df.                  *)
(*                                                                         *)
(* A DataFrame is a record                                                 *)
(*   columns : sequence of column names (order of the frame)               *)
(*   dtypes  : column name -> "int64" | "float64" | "object"               *)
(*   index   : sequence of row labels                                      *)
(*   data    : column name -> sequence of cell values                      *)
(* int64 cells are integers, object cells are strings, float64 cells are   *)
(* records [kind, num, den]: an exact fraction, or one of the IEEE markers *)
(* inf, -inf, nan.                                                         *)
(*                                                                         *)
(* Spec     : the cells over a frame loaded from a well-formed CSV file of *)
(*            1..MaxRows data rows.                                        *)
(* SpecLoad : load_data alone over CSV files of every shape (absent, empty,*)
(*            header only, short and long data lines).                     *)
(***************************************************************************)
EXTENDS Integers, Sequences, FiniteSets, TLC

VARIABLES
    file,       \* the content of data/customer_data.csv
    df,         \* the DataFrame bound to the notebook's global df
    bound,      \* whether df is bound (df = load_data() has succeeded)
    executed,   \* how many times data_operations(df) has run on this frame
    out         \* what the cell run last evaluated and printed

vars == <<file, df, bound, executed, out>>

(* ------------------------------ bounds --------------------------------- *)

\* largest number of data rows of a well-formed file (Spec)
MaxRows == 5

\* largest number of data rows of one kind in a well-formed file (Spec)
MaxTies == 2

\* largest number of data lines of a file of arbitrary shape (SpecLoad)
MaxLoadLines == 4

\* largest number of runs of data_operations on one frame
MaxRuns == 2

(* --------------------------- float64 values ---------------------------- *)

RECURSIVE GCD(_, _)
GCD(a, b) == IF b = 0 THEN a ELSE GCD(b, a % b)

Abs(n) == IF n < 0 THEN -n ELSE n

NaN == [kind |-> "nan", num |-> 0, den |-> 1]

PosInf == [kind |-> "inf", num |-> 1, den |-> 0]

NegInf == [kind |-> "-inf", num |-> -1, den |-> 0]

\* the float64 n/d (d # 0), in lowest terms with a positive denominator
Float(n, d) ==
    LET g == GCD(Abs(n), Abs(d))
        s == IF d < 0 THEN -1 ELSE 1
    IN  [kind |-> "num", num |-> (s * n) \div g, den |-> Abs(d) \div g]

\* a < b for two float64 values that are not nan
float_lt(a, b) ==
    CASE a.kind = "-inf" -> b.kind # "-inf"
      [] a.kind = "inf"  -> FALSE
      [] OTHER -> CASE b.kind = "-inf" -> FALSE
                    [] b.kind = "inf"  -> TRUE
                    [] OTHER -> a.num * b.den < b.num * a.den

\* a division that stores 0 for a zero divisor
truediv_zero_default(a, b) == IF b = 0 THEN Float(0, 1) ELSE Float(a, b)

\* element of int64 / int64 (true division): numpy yields inf, -inf or nan
\* for a zero divisor and raises nothing
truediv(a, b) ==
    IF b = 0
    THEN (IF a = 0 THEN NaN ELSE IF a > 0 THEN PosInf ELSE NegInf)
    ELSE Float(a, b)

(* ------------------------------ CSV text ------------------------------- *)

Header == <<"user_id", "age", "annual_income", "purchase_amount",
            "loyalty_score", "region", "purchase_frequency">>

\* the integer literals that occur in the files, and their values
IntOf ==
    ("0" :> 0) @@ ("1" :> 1) @@ ("2" :> 2) @@ ("3" :> 3) @@ ("4" :> 4) @@
    ("5" :> 5) @@ ("6" :> 6) @@ ("7" :> 7) @@ ("8" :> 8) @@ ("9" :> 9) @@
    ("12" :> 12) @@ ("22" :> 22) @@ ("25" :> 25) @@ ("34" :> 34) @@
    ("200" :> 200) @@ ("350" :> 350) @@
    ("30000" :> 30000) @@ ("45000" :> 45000) @@ ("55000" :> 55000)

\* the decimal literals that occur in the files, and their values
FloatOf ==
    ("4.5" :> Float(9, 2)) @@ ("75.0" :> Float(75, 1)) @@ ("80.5" :> Float(161, 2))

UserIdTok == <<"1", "2", "3", "4", "5", "6", "7", "8", "9">>

\* the fields after user_id of the three kinds of data row
RowKinds ==
    { <<"25", "45000", "200", "4.5",  "North", "12">>,
      <<"34", "55000", "350", "80.5", "South", "0">>,
      <<"22", "30000", "0",   "75.0", "East",  "0">> }

\* the i-th data line of a well-formed file
Line(i, kind) == <<UserIdTok[i]>> \o kind

\* a header line followed by 1..MaxRows data lines of exactly Len(Header) fields,
\* at most MaxTies of them of one kind
WellFormedFiles ==
    UNION { { [exists |-> TRUE,
               lines  |-> <<Header>> \o [i \in 1..n |-> Line(i, ks[i])]] :
                 ks \in { f \in [1..n -> RowKinds] :
                            \A k \in RowKinds :
                               Cardinality({ i \in 1..n : f[i] = k }) <= MaxTies } } :
            n \in 1..MaxRows }

\* the data line i with a field too few, as it should be, or with a field too many
Shapes == {"short", "exact", "long"}

Shaped(i, shape) ==
    LET l == Line(i, CHOOSE k \in RowKinds : k[1] = "25")
    IN  CASE shape = "short" -> SubSeq(l, 1, Len(l) - 1)
          [] shape = "long"  -> l \o <<"9">>
          [] OTHER           -> l

\* files of every shape: absent, empty, header only, 1..MaxLoadLines data lines
AnyFiles ==
    { [exists |-> FALSE, lines |-> <<>>], [exists |-> TRUE, lines |-> <<>>] }
    \cup UNION { { [exists |-> TRUE,
                    lines  |-> <<Header>> \o [i \in 1..n |-> Shaped(i, sh[i])]] :
                      sh \in [1..n -> Shapes] } : n \in 0..MaxLoadLines }

(* ------------------------------ DataFrame ------------------------------ *)

Max(a, b) == IF a > b THEN a ELSE b

Min(a, b) == IF a < b THEN a ELSE b

Range(s) == { s[i] : i \in 1..Len(s) }

NoFrame == [columns |-> <<>>, dtypes |-> <<>>, index |-> <<>>, data |-> <<>>]

\* the tokenizer closes a line that has fewer fields than expected with empty fields
Pad(line, w) == line \o [j \in 1..(w - Len(line)) |-> ""]

\* dtype inference over the tokens of one column; the empty token is a missing value
infer_dtype(toks) ==
    IF Len(toks) = 0 THEN "object"
    ELSE IF \A i \in 1..Len(toks) : toks[i] \in DOMAIN IntOf THEN "int64"
    ELSE IF \A i \in 1..Len(toks) :
                toks[i] \in DOMAIN IntOf \cup DOMAIN FloatOf \cup {""} THEN "float64"
    ELSE "object"

convert(tok, dtype) ==
    CASE dtype = "int64"   -> IntOf[tok]
      [] dtype = "float64" -> IF tok = "" THEN NaN
                              ELSE IF tok \in DOMAIN IntOf THEN Float(IntOf[tok], 1)
                              ELSE FloatOf[tok]
      [] OTHER             -> IF tok = "" THEN NaN ELSE tok

\* the frame the parser builds from a header and data lines of at most width
\* fields: a line with fewer fields is closed with missing values, and fields
\* in excess of the header (at the front of every line) become the row index
parse_frame(header, body, width) ==
    LET K       == Len(header)
        R       == Len(body)
        leading == width - K
        field(i, j) == Pad(body[i], width)[j]
        coltoks(j)  == [i \in 1..R |-> field(i, j)]
        dtype(j)    == infer_dtype(coltoks(j))
        column(j)   == [i \in 1..R |-> convert(field(i, j), dtype(j))]
        pos(c)      == CHOOSE j \in 1..K : header[j] = c
    IN  [columns |-> header,
         dtypes  |-> [c \in Range(header) |-> dtype(leading + pos(c))],
         index   |-> IF leading = 0 THEN [i \in 1..R |-> i - 1] ELSE column(1),
         data    |-> [c \in Range(header) |-> column(leading + pos(c))]]

\* a reader that rejects content without data lines and lines of another
\* field count than the header
read_csv_strict(f) ==
    IF ~f.exists THEN [error |-> "FileNotFoundError", frame |-> NoFrame]
    ELSE IF f.lines = <<>> THEN [error |-> "EmptyDataError", frame |-> NoFrame]
    ELSE IF \/ Len(f.lines) = 1
            \/ \E i \in 2..Len(f.lines) : Len(f.lines[i]) # Len(f.lines[1])
         THEN [error |-> "ParserError", frame |-> NoFrame]
    ELSE [error |-> "",
          frame |-> parse_frame(Head(f.lines), Tail(f.lines), Len(f.lines[1]))]

\* pd.read_csv with its defaults (C parser, header=0, index_col=None):
\*   - the header line names the columns;
\*   - the first data line may hold more fields than the header, the surplus
\*     leading field then becomes the row index;
\*   - a later line with more fields than the line before it is an error;
\*   - a line with fewer fields is closed with missing values.
read_csv(f) ==
    IF ~f.exists THEN [error |-> "FileNotFoundError", frame |-> NoFrame]
    ELSE IF f.lines = <<>> THEN [error |-> "EmptyDataError", frame |-> NoFrame]
    ELSE
      LET header == Head(f.lines)
          body   == Tail(f.lines)
          width  == IF body = <<>> THEN Len(header)
                    ELSE Max(Len(header), Len(body[1]))
      IN  IF \E i \in 2..Len(body) : Len(body[i]) > width
          THEN [error |-> "ParserError", frame |-> NoFrame]
          ELSE [error |-> "", frame |-> parse_frame(header, body, width)]

nrows(t) == Len(t.index)

\* the rows of t at the given positions, in that order, labels travelling with rows
take(t, positions) ==
    [t EXCEPT !.index = [i \in 1..Len(positions) |-> t.index[positions[i]]],
              !.data  = [c \in DOMAIN t.data |->
                          [i \in 1..Len(positions) |-> t.data[c][positions[i]]]]]

\* the positions at which a boolean sequence holds, ascending
RECURSIVE Positions(_)
Positions(mask) ==
    IF mask = <<>> THEN <<>>
    ELSE LET n     == Len(mask)
             front == Positions(SubSeq(mask, 1, n - 1))
         IN  IF mask[n] THEN Append(front, n) ELSE front

\* df.head(n): the first n rows
head(t, n) == take(t, [i \in 1..Min(n, nrows(t)) |-> i])

\* df.info(): entries, and per column the non-null count and the dtype
isna(v, dtype) == dtype = "float64" /\ v.kind = "nan"

non_null(t, c) == Cardinality({ i \in 1..nrows(t) : ~isna(t.data[c][i], t.dtypes[c]) })

info(t) ==
    [entries |-> nrows(t),
     columns |-> [j \in 1..Len(t.columns) |->
                    [name  |-> t.columns[j],
                     count |-> non_null(t, t.columns[j]),
                     dtype |-> t.dtypes[t.columns[j]]]]]

\* df.describe(): over the numeric columns; of its rows the model keeps count,
\* min and max (mean, std and the quartiles are real-valued printouts)
as_float(v, dtype) == IF dtype = "int64" THEN Float(v, 1) ELSE v

describe(t) ==
    LET numeric == Positions([j \in 1..Len(t.columns) |->
                                         t.dtypes[t.columns[j]] # "object"])
        vals(c) == { as_float(t.data[c][i], t.dtypes[c]) :
                       i \in { k \in 1..nrows(t) : ~isna(t.data[c][k], t.dtypes[c]) } }
        least(S)    == IF S = {} THEN NaN
                       ELSE CHOOSE x \in S : \A y \in S : ~float_lt(y, x)
        greatest(S) == IF S = {} THEN NaN
                       ELSE CHOOSE x \in S : \A y \in S : ~float_lt(x, y)
    IN  [j \in 1..Len(numeric) |->
           LET c == t.columns[numeric[j]]
           IN  [name  |-> c,
                count |-> non_null(t, c),
                min   |-> least(vals(c)),
                max   |-> greatest(vals(c))]]

\* df[[...]]: the named columns in the requested order, all rows
getitem_columns(t, names) ==
    [columns |-> names,
     dtypes  |-> [c \in Range(names) |-> t.dtypes[c]],
     index   |-> t.index,
     data    |-> [c \in Range(names) |-> t.data[c]]]

\* df[c] > n: the boolean Series; a comparison with nan is False
gt(t, c, n) ==
    [i \in 1..nrows(t) |->
        IF t.dtypes[c] = "int64" THEN t.data[c][i] > n
        ELSE /\ t.data[c][i].kind # "nan"
             /\ float_lt(Float(n, 1), t.data[c][i])]

\* a selection that renumbers the rows it keeps
getitem_mask_reset(t, mask) ==
    LET r == take(t, Positions(mask))
    IN  [r EXCEPT !.index = [i \in 1..Len(r.index) |-> i - 1]]

\* df[mask]: the rows at which the boolean Series holds
getitem_mask(t, mask) == take(t, Positions(mask))

\* a label slice that leaves the end label out
loc_exclusive(t, a, b, names) ==
    getitem_columns(
        take(t, Positions([i \in 1..nrows(t) |-> a <= t.index[i] /\ t.index[i] < b])),
        names)

\* a label slice that selects nothing unless both end labels are in the index
loc_strict(t, a, b, names) ==
    getitem_columns(
        take(t, Positions([i \in 1..nrows(t) |->
                             /\ a \in Range(t.index) /\ b \in Range(t.index)
                             /\ a <= t.index[i] /\ t.index[i] <= b])),
        names)

\* df.loc[a:b, names] over a monotonic increasing integer index: the rows whose
\* label lies in a..b (both ends included), the named columns
loc(t, a, b, names) ==
    getitem_columns(
        take(t, Positions([i \in 1..nrows(t) |-> a <= t.index[i] /\ t.index[i] <= b])),
        names)

\* an assignment that always appends a column
setitem_append(t, c, dtype, values) ==
    [columns |-> Append(t.columns, c),
     dtypes  |-> [d \in DOMAIN t.dtypes \cup {c} |->
                    IF d = c THEN dtype ELSE t.dtypes[d]],
     index   |-> t.index,
     data    |-> [d \in DOMAIN t.data \cup {c} |->
                    IF d = c THEN values ELSE t.data[d]]]

\* df[c] = values: an existing column is overwritten where it stands, a new one
\* is appended as the last column
setitem(t, c, dtype, values) ==
    [columns |-> IF c \in Range(t.columns) THEN t.columns ELSE Append(t.columns, c),
     dtypes  |-> [d \in DOMAIN t.dtypes \cup {c} |->
                    IF d = c THEN dtype ELSE t.dtypes[d]],
     index   |-> t.index,
     data    |-> [d \in DOMAIN t.data \cup {c} |->
                    IF d = c THEN values ELSE t.data[d]]]

\* df[a] / df[b] for two int64 columns: element-wise true division
series_truediv(t, a, b) ==
    [i \in 1..nrows(t) |-> truediv(t.data[a][i], t.data[b][i])]

\* the orders in which the positions of S can come out of a sort on key:
\* ascending or descending by key, rows of equal key in any order
RECURSIVE SortOrders(_, _, _)
SortOrders(S, key, ascending) ==
    IF S = {} THEN {<<>>}
    ELSE LET first == { p \in S : \A q \in S :
                          IF ascending THEN key[p] <= key[q] ELSE key[p] >= key[q] }
         IN  UNION { { <<p>> \o s : s \in SortOrders(S \ {p}, key, ascending) } :
                       p \in first }

\* a sort that ignores the requested direction
sort_values_ascending(t, by, ascending) ==
    { take(t, p) : p \in SortOrders(1..nrows(t), t.data[by], TRUE) }

\* df.sort_values(by, ascending=...) on an int64 column, kind='quicksort' (the
\* default), which is not a stable sort: the set of frames it can return
sort_values(t, by, ascending) ==
    { take(t, p) : p \in SortOrders(1..nrows(t), t.data[by], ascending) }

(* ---------------------------- notebook cells --------------------------- *)

NoOutput == [cell |-> "none", error |-> "", result |-> <<>>]

\* df = load_data()
load_data ==
    LET r == read_csv(file)
    IN  /\ IF r.error = ""
           THEN df' = r.frame /\ bound' = TRUE /\ executed' = 0
           ELSE UNCHANGED <<df, bound, executed>>
        /\ out' = [cell |-> "load_data", error |-> r.error, result |-> <<>>]
        /\ UNCHANGED file

\* explore_dataframe(df)
explore_dataframe ==
    /\ bound
    /\ out' = [cell   |-> "explore_dataframe",
               error  |-> "",
               result |-> [head     |-> head(df, 5),
                           info     |-> info(df),
                           describe |-> describe(df)]]
    /\ UNCHANGED <<file, df, bound, executed>>

\* data_selection(df)
data_selection ==
    LET projected == getitem_columns(df, <<"age", "annual_income">>)
        filtered  == getitem_mask(df, gt(df, "loyalty_score", 75))
    IN  /\ bound
        /\ out' = [cell   |-> "data_selection",
                   error  |-> "",
                   result |-> [projected      |-> projected,
                               projected_head |-> head(projected, 5),
                               filtered       |-> filtered,
                               filtered_head  |-> head(filtered, 5),
                               located        |-> loc(df, 0, 4,
                                   <<"user_id", "age", "purchase_amount">>)]]
        /\ UNCHANGED <<file, df, bound, executed>>

\* data_operations with the sort done in place
data_operations_sort_inplace ==
    LET added == setitem(df, "average_purchase", "float64",
                         series_truediv(df, "purchase_amount", "purchase_frequency"))
    IN  /\ bound
        /\ executed < MaxRuns
        /\ executed' = executed + 1
        /\ \E sorted \in sort_values(added, "purchase_amount", FALSE) :
              /\ df' = sorted
              /\ out' = [cell   |-> "data_operations",
                         error  |-> "",
                         result |-> [head        |-> head(added, 5),
                                     sorted      |-> sorted,
                                     sorted_head |-> head(sorted, 5)]]
        /\ UNCHANGED <<file, bound>>

\* data_operations(df)
data_operations ==
    LET added == setitem(df, "average_purchase", "float64",
                         series_truediv(df, "purchase_amount", "purchase_frequency"))
    IN  /\ bound
        /\ executed < MaxRuns
        /\ executed' = executed + 1
        /\ df' = added
        /\ \E sorted \in sort_values(added, "purchase_amount", FALSE) :
              out' = [cell   |-> "data_operations",
                      error  |-> "",
                      result |-> [head        |-> head(added, 5),
                                  sorted      |-> sorted,
                                  sorted_head |-> head(sorted, 5)]]
        /\ UNCHANGED <<file, bound>>

(* ---------------------------- specifications --------------------------- *)

Init ==
    /\ file \in WellFormedFiles
    /\ df = NoFrame
    /\ bound = FALSE
    /\ executed = 0
    /\ out = NoOutput

Next ==
    \/ load_data
    \/ explore_dataframe
    \/ data_selection
    \/ data_operations

Spec == Init /\ [][Next]_vars

InitLoad ==
    /\ file \in AnyFiles
    /\ df = NoFrame
    /\ bound = FALSE
    /\ executed = 0
    /\ out = NoOutput

NextLoad == load_data

SpecLoad == InitLoad /\ [][NextLoad]_vars

(* -------------------------------- claims ------------------------------- *)

AVG == "average_purchase"

HasAvg(t) == AVG \in Range(t.columns)

\* v is what a / b stores: a marker for a zero divisor, the exact quotient otherwise
IsQuotient(v, a, b) ==
    IF b = 0 THEN v.kind \in {"inf", "-inf", "nan"}
    ELSE v.kind = "num" /\ v.den > 0 /\ v.num * b = a * v.den

\* row k of frame s is row i of frame t: same label, same value in every column of t
SameRow(s, k, t, i) ==
    /\ s.index[k] = t.index[i]
    /\ \A c \in Range(t.columns) : s.data[c][k] = t.data[c][i]

\* C1: head, info, describe, column projection, boolean filtering, loc and
\* sort_values leave the frame they are applied to as it was (same columns in
\* the same order, same row index, same cells): a run of explore_dataframe or
\* of data_selection does not change df, and a run of data_operations changes
\* df only by the assignment of 'average_purchase' (the sort it prints does
\* not reorder df).
C1_OnlyAssignmentMutates ==
    [][ /\ (out'.cell \in {"explore_dataframe", "data_selection"} => df' = df)
        /\ (out'.cell = "data_operations" =>
              /\ df'.index = df.index
              /\ Range(df'.columns) = Range(df.columns) \cup {AVG}
              /\ \A j \in 1..Len(df.columns) : df'.columns[j] = df.columns[j]
              /\ \A c \in Range(df.columns) \ {AVG} :
                    df'.data[c] = df.data[c] /\ df'.dtypes[c] = df.dtypes[c]) ]_vars

\* data_operations has printed a sorted frame whose row order differs from df's
C1_Witness ==
    /\ out.cell = "data_operations"
    /\ out.result.sorted.index # df.index
    /\ HasAvg(df)

Exceeds75(v) == v.kind = "inf" \/ (v.kind = "num" /\ v.num > 75 * v.den)

\* C2: df[df['loyalty_score'] > 75] holds exactly the rows of df whose
\* loyalty_score exceeds 75: every row of it is such a row of df with its
\* original label and cells, every such row is in it, in the original order,
\* with all the columns of df; with no such row it is a frame of zero rows and
\* the same columns, and nothing is raised.
C2_FilterExact ==
    out.cell = "data_selection" =>
        LET f   == out.result.filtered
            sat == { i \in 1..nrows(df) : Exceeds75(df.data["loyalty_score"][i]) }
        IN  /\ out.error = ""
            /\ f.columns = df.columns
            /\ nrows(f) = Cardinality(sat)
            /\ \A k \in 1..nrows(f) : \E i \in sat : SameRow(f, k, df, i)
            /\ \A k \in 1..(nrows(f) - 1) : f.index[k] < f.index[k + 1]
            /\ \A c \in Range(df.columns) : Len(f.data[c]) = nrows(f)

\* the filter kept some rows and dropped others, the first row among the dropped
C2_Witness ==
    /\ out.cell = "data_selection"
    /\ nrows(out.result.filtered) >= 1
    /\ nrows(out.result.filtered) < nrows(df)
    /\ out.result.filtered.index[1] # 0

\* C3 as stated: the frame printed by sort_values('purchase_amount',
\* ascending=False) is ordered by purchase_amount, and rows of equal
\* purchase_amount keep the relative order they have in df.
C3_StableSort ==
    out.cell = "data_operations" =>
        LET s == out.result.sorted
        IN  \A j, k \in 1..nrows(s) :
               j < k =>
                  \/ s.data["purchase_amount"][j] > s.data["purchase_amount"][k]
                  \/ /\ s.data["purchase_amount"][j] = s.data["purchase_amount"][k]
                     /\ s.index[j] < s.index[k]

\* C3 amended: the frame printed by sort_values('purchase_amount',
\* ascending=False) holds every row of df once, each with its original label
\* and cells, in non-increasing order of purchase_amount; nothing is promised
\* about the relative order of rows of equal purchase_amount.
C3_SortedPermutation ==
    out.cell = "data_operations" =>
        LET s == out.result.sorted
        IN  /\ s.columns = df.columns
            /\ nrows(s) = nrows(df)
            /\ \A i \in 1..nrows(df) : \E k \in 1..nrows(s) : SameRow(s, k, df, i)
            /\ \A k \in 1..(nrows(s) - 1) :
                  s.data["purchase_amount"][k] >= s.data["purchase_amount"][k + 1]

\* two rows of equal purchase_amount came out of the sort in reverse order
C3_Witness ==
    /\ out.cell = "data_operations"
    /\ \E j, k \in 1..nrows(out.result.sorted) :
          /\ j < k
          /\ out.result.sorted.data["purchase_amount"][j]
                = out.result.sorted.data["purchase_amount"][k]
          /\ out.result.sorted.index[j] > out.result.sorted.index[k]

\* C4 as stated: a run of data_operations on a frame that already holds
\* 'average_purchase' fails with DuplicateColumn and leaves the frame unchanged.
C4_DuplicateColumnFails ==
    [][ out'.cell = "data_operations" /\ HasAvg(df) =>
           out'.error = "DuplicateColumn" /\ df' = df ]_vars

\* C4 amended: a run of data_operations on a frame that already holds
\* 'average_purchase' raises nothing and overwrites the column where it
\* stands: same columns in the same order, same index, every other column
\* untouched, 'average_purchase' holding the quotients again.
C4_DuplicateColumnOverwritten ==
    [][ out'.cell = "data_operations" /\ HasAvg(df) =>
           /\ out'.error = ""
           /\ df'.columns = df.columns
           /\ df'.index = df.index
           /\ \A c \in Range(df.columns) \ {AVG} : df'.data[c] = df.data[c]
           /\ \A i \in 1..nrows(df) :
                 IsQuotient(df'.data[AVG][i], df.data["purchase_amount"][i],
                            df.data["purchase_frequency"][i]) ]_vars

\* data_operations has run a second time on the same frame
C4_Witness ==
    /\ out.cell = "data_operations"
    /\ executed = 2
    /\ Len(df.columns) = Len(Header) + 1

LocColumns == <<"user_id", "age", "purchase_amount">>

\* frame r holds exactly the rows of df labelled lo..hi, in order, restricted
\* to the columns names in that order (no row when lo > hi)
IsLabelRange(r, lo, hi, names) ==
    /\ r.columns = names
    /\ nrows(r) = (IF hi >= lo THEN hi - lo + 1 ELSE 0)
    /\ \A k \in 1..nrows(r) :
          /\ r.index[k] = lo + k - 1
          /\ \A c \in Range(names) :
                Len(r.data[c]) = nrows(r) /\ r.data[c][k] = df.data[c][lo + k]

\* C5 as stated: df.loc[0:4, [...]] fails (pandas raises KeyError for a label
\* that is not in the index) whenever the label 0 or the label 4 is not in
\* the index of df.
C5_AbsentEndpointFails ==
    out.cell = "data_selection"
        /\ (0 \notin Range(df.index) \/ 4 \notin Range(df.index))
    => out.error = "KeyError"

\* C5 amended: on a frame with the default index 0..N-1, df.loc[a:b, names]
\* with an endpoint that is not in the index raises nothing and returns the
\* rows whose labels lie in a..b: the rows a..N-1 when only b is absent, no
\* row when a is absent; df.loc[0:4, [...]] on a frame of fewer than 5 rows
\* returns all its rows.
C5_AbsentEndpointTruncates ==
    bound =>
        LET N == nrows(df)
        IN  /\ \A a \in 0..(N + 1) : \A b \in N..(N + 1) :
                  a <= b =>
                     IsLabelRange(loc(df, a, b, LocColumns), a, N - 1, LocColumns)
            /\ (out.cell = "data_selection" /\ N < 5 =>
                  /\ out.error = ""
                  /\ IsLabelRange(out.result.located, 0, N - 1, LocColumns))

\* data_selection has printed df.loc[0:4, ...] of a frame of fewer than 5 rows
C5_Witness ==
    /\ out.cell = "data_selection"
    /\ nrows(df) < 5
    /\ nrows(out.result.located) = nrows(df)

\* C6: on a frame with the default index 0..N-1 and 0 <= a <= b <= N-1,
\* df.loc[a:b, names] holds exactly the b-a+1 rows labelled a..b, in order,
\* and exactly the columns names in that order; df.loc[0:4, [...]] of a frame
\* of at least 5 rows holds exactly the 5 rows labelled 0..4.
C6_LabelRangeInclusive ==
    bound =>
        LET N == nrows(df)
        IN  /\ \A a, b \in 0..(N - 1) :
                  a <= b =>
                     /\ IsLabelRange(loc(df, a, b, LocColumns), a, b, LocColumns)
                     /\ nrows(loc(df, a, b, LocColumns)) = b - a + 1
            /\ (out.cell = "data_selection" /\ N >= 5 =>
                  /\ nrows(out.result.located) = 5
                  /\ out.result.located.index = <<0, 1, 2, 3, 4>>
                  /\ IsLabelRange(out.result.located, 0, 4, LocColumns))

\* data_selection has printed df.loc[0:4, ...] of a frame of at least 5 rows
C6_Witness ==
    /\ out.cell = "data_selection"
    /\ nrows(df) >= 5
    /\ nrows(out.result.located) = 5

\* C7: the assignment of 'average_purchase' never fails on a zero
\* purchase_frequency; it stores inf, -inf or nan in exactly the rows whose
\* purchase_frequency is zero and the quotient in every other row.
C7_ZeroDivisorMarkers ==
    /\ (out.cell = "data_operations" => out.error = "" /\ HasAvg(df))
    /\ (bound /\ HasAvg(df) =>
          \A i \in 1..nrows(df) :
             LET v == df.data[AVG][i]
                 a == df.data["purchase_amount"][i]
                 b == df.data["purchase_frequency"][i]
             IN  /\ b = 0 <=> v.kind \in {"inf", "-inf", "nan"}
                 /\ b # 0 => v.kind = "num" /\ v.num * b = a * v.den)

\* 'average_purchase' was computed over zero and non-zero purchase frequencies
C7_Witness ==
    /\ out.cell = "data_operations"
    /\ \E i, j \in 1..nrows(df) :
          /\ df.data["purchase_frequency"][i] = 0
          /\ df.data["purchase_frequency"][j] # 0
          /\ df.data[AVG][i].kind = "inf"
          /\ df.data[AVG][j].kind = "num"

DataLines == IF file.lines = <<>> THEN <<>> ELSE Tail(file.lines)

\* a header and at least one data line, every data line of as many fields as the header
WellFormed ==
    /\ file.exists
    /\ file.lines # <<>>
    /\ Len(DataLines) >= 1
    /\ \A i \in 1..Len(DataLines) : Len(DataLines[i]) = Len(Head(file.lines))

\* no data line, or a data line whose field count differs from the header's
Malformed ==
    /\ file.exists
    /\ \/ file.lines = <<>>
       \/ Len(DataLines) = 0
       \/ \E i \in 1..Len(DataLines) : Len(DataLines[i]) # Len(Head(file.lines))

\* what read_csv raises for content it cannot parse (the spec's ParseError)
ParseErrors == {"ParserError", "EmptyDataError"}

\* C8 as stated: load_data binds a frame only for well-formed content (then
\* with one row per data line and the header as columns); it fails with a
\* parse error for content without data rows or with a data line whose field
\* count differs from the header's, and with FileNotFoundError for an absent
\* file.
C8_LoadRejectsMalformed ==
    out.cell = "load_data" =>
        /\ (~file.exists => out.error = "FileNotFoundError" /\ ~bound)
        /\ (WellFormed =>
              /\ out.error = "" /\ bound
              /\ nrows(df) = Len(DataLines)
              /\ df.columns = Head(file.lines))
        /\ (Malformed => out.error \in ParseErrors /\ ~bound)

\* C8 amended: load_data fails with FileNotFoundError for an absent file and
\* with a parse error only for content that is completely empty or that has,
\* after the first data line, a line of more fields than both the header and
\* the first data line. Everything else loads, with one row per data line
\* and the header as columns: a header without data lines gives a frame of
\* zero rows, a line of fewer fields is completed with missing values (nan)
\* in the trailing columns, and a surplus field on the first data line makes
\* the first field of every line the row label.
C8_LoadOutcome ==
    out.cell = "load_data" =>
        /\ (~file.exists => out.error = "FileNotFoundError" /\ ~bound)
        /\ (file.exists /\ file.lines = <<>> =>
              out.error = "EmptyDataError" /\ ~bound)
        /\ (file.exists /\ file.lines # <<>> =>
              LET H       == Head(file.lines)
                  K       == Len(H)
                  R       == Len(DataLines)
                  width   == IF R = 0 THEN K ELSE Max(K, Len(DataLines[1]))
                  surplus == \E i \in 2..R : Len(DataLines[i]) > width
              IN  /\ (surplus => out.error = "ParserError" /\ ~bound)
                  /\ (~surplus =>
                        /\ out.error = "" /\ bound
                        /\ df.columns = H
                        /\ nrows(df) = R
                        /\ \A c \in Range(H) : Len(df.data[c]) = R
                        /\ (width = K =>
                              \A i \in 1..R :
                                 /\ df.index[i] = i - 1
                                 /\ Len(DataLines[i]) < K => df.data[H[K]][i] = NaN)
                        /\ (width > K =>
                              \A i \in 1..R :
                                 df.index[i] = IntOf[DataLines[i][1]])))

\* a file with a short data line has been loaded
C8_Witness ==
    /\ out.cell = "load_data"
    /\ out.error = ""
    /\ bound
    /\ nrows(df) >= 2
    /\ \E i \in 1..Len(DataLines) : Len(DataLines[i]) < Len(Head(file.lines))

WellShaped(t) ==
    /\ Cardinality(Range(t.columns)) = Len(t.columns)
    /\ DOMAIN t.data = Range(t.columns)
    /\ \A c \in Range(t.columns) : Len(t.data[c]) = Len(t.index)

\* C9: once loaded, df keeps one row per data line of the file and the
\* labels 0..N-1 through every run of explore_dataframe, data_selection and
\* data_operations, every column of it holds one value per row, and its
\* column names are distinct; every frame the cells evaluate (head, column
\* projection, filter, loc, sorted frame) likewise holds one value per row in
\* every column, under distinct column names.
C9_StructuralInvariants ==
    bound =>
        /\ WellShaped(df)
        /\ nrows(df) = Len(DataLines)
        /\ \A i \in 1..nrows(df) : df.index[i] = i - 1
        /\ (out.cell = "explore_dataframe" => WellShaped(out.result.head))
        /\ (out.cell = "data_selection" =>
              /\ WellShaped(out.result.projected)
              /\ WellShaped(out.result.projected_head)
              /\ WellShaped(out.result.filtered)
              /\ WellShaped(out.result.filtered_head)
              /\ WellShaped(out.result.located))
        /\ (out.cell = "data_operations" =>
              /\ WellShaped(out.result.head)
              /\ WellShaped(out.result.sorted)
              /\ WellShaped(out.result.sorted_head))

\* data_selection has filtered rows out of a frame that data_operations extended
C9_Witness ==
    /\ out.cell = "data_selection"
    /\ HasAvg(df)
    /\ nrows(out.result.filtered) >= 1
    /\ nrows(out.result.filtered) < nrows(df)

WithAvg == Header \o <<AVG>>

====
